---- MODULE Spec2Model ----
(***************************************************************************)
(* The tile-pyramid cache manager of pix (src/src/main.rs): the per-group  *)
(* progressive cache stepper, the thumbnail pipeline with its worker jobs  *)
(* and the persistent store they write, the grouping manager, and the      *)
(* TileRef address codec.                                                  *)
(***************************************************************************)
EXTENDS Integers, Sequences, FiniteSets, TLC

(***************************************************************************)
(* Bounds of the model.                                                    *)
(***************************************************************************)
\* Number of files enumerated at startup (files.len()).
NumImages == 2
\* Number of pyramid levels a generated Metadata holds.
NumLevels == 3
\* Largest visibility-derived shift an off-screen image gets.
MaxShift == 1

Levels == 0 .. (NumLevels - 1)

(***************************************************************************)
(* Small arithmetic helpers (u32 operations of the standard library).      *)
(***************************************************************************)
Max(a, b) == IF a < b THEN b ELSE a

RECURSIVE Pow(_, _)
Pow(b, e) == IF e = 0 THEN 1 ELSE b * Pow(b, e - 1)

\* Number of significant bits of x: 32 - x.leading_zeros().
RECURSIVE BitLenRec(_)
BitLenRec(x) == IF x = 0 THEN 0 ELSE 1 + BitLenRec(x \div 2)

\* The same, tabulated for the small values the model computes with most.
BitLenTable == [ x \in 0 .. 4096 |-> BitLenRec(x) ]
BitLen(x) == IF x <= 4096 THEN BitLenTable[x] ELSE BitLenRec(x)

leading_zeros(x) == 32 - BitLen(x)

\* u32::next_power_of_two: the smallest power of two >= x (1 for x = 0).
next_power_of_two(x) == IF x <= 1 THEN 1 ELSE Pow(2, BitLen(x - 1))

Abs(x) == IF x < 0 THEN 0 - x ELSE x

\* f64 log2 cast to u32 (vec2_u32(vec2_log(.., 2.0))) of a positive integer.
Log2Floor(x) == BitLen(x) - 1

(***************************************************************************)
(* Option<usize>, as image.size holds it.                                  *)
(***************************************************************************)
None == << >>
Some(k) == << k >>
unwrap_or(o, d) == IF o = None THEN d ELSE o[1]

(***************************************************************************)
(* Coordinates ([u32; 2]) and their BTreeMap key order.                    *)
(***************************************************************************)
CoordLess(a, b) == a[1] < b[1] \/ (a[1] = b[1] /\ a[2] < b[2])

\* The keys of a BTreeMap<[u32; 2], _> in iteration order.
RECURSIVE SortedKeys(_)
SortedKeys(S) ==
    IF S = {} THEN << >>
    ELSE LET m == CHOOSE x \in S : \A y \in S \ {x} : CoordLess(x, y)
         IN  << m >> \o SortedKeys(S \ {m})

SeqToSet(s) == { s[k] : k \in 1 .. Len(s) }

\* A function with one key removed / one key set (BTreeMap remove / insert).
MapRemove(f, K) == [ k \in (DOMAIN f) \ K |-> f[k] ]
MapInsert(f, key, v) == [ k \in (DOMAIN f) \cup {key} |-> IF k = key THEN v ELSE f[k] ]

(***************************************************************************)
(* u64 words and the TileRef address codec.  A u64 is held as its eight    *)
(* bytes, most significant first (to_be_bytes), since the values exceed    *)
(* the integers the checker computes with.                                 *)
(***************************************************************************)
Bytes == 0 .. 255

\* Bitwise | and & of two bytes.
RECURSIVE BitOr(_, _)
BitOr(a, b) ==
    IF a = 0 THEN b
    ELSE IF b = 0 THEN a
    ELSE Max(a % 2, b % 2) + 2 * BitOr(a \div 2, b \div 2)

RECURSIVE BitAnd(_, _)
BitAnd(a, b) ==
    IF a = 0 \/ b = 0 THEN 0
    ELSE (a % 2) * (b % 2) + 2 * BitAnd(a \div 2, b \div 2)

\* x as u64, for a value x below 2^31 (u8, u16 and the small ids of the model).
U64(x) == [ k \in 1 .. 8 |-> IF k <= 4 THEN 0 ELSE (x \div Pow(256, 8 - k)) % 256 ]

\* a | b and a & b on u64.
WordOr(a, b) == [ k \in 1 .. 8 |-> BitOr(a[k], b[k]) ]
WordAnd(a, b) == [ k \in 1 .. 8 |-> BitAnd(a[k], b[k]) ]

\* w << bits and w >> bits on u64, for the whole-byte shifts the codec uses.
WordShl(w, bits) == [ k \in 1 .. 8 |-> IF k + bits \div 8 <= 8 THEN w[k + bits \div 8] ELSE 0 ]
WordShr(w, bits) == [ k \in 1 .. 8 |-> IF k - bits \div 8 >= 1 THEN w[k - bits \div 8] ELSE 0 ]

\* w % (1u64 << 40): the low 40 bits of w.
WordMod2p40(w) == [ k \in 1 .. 8 |-> IF k <= 3 THEN 0 ELSE w[k] ]

\* `as u8` and `as u16` of a u64: the low byte, the low two bytes.
AsU8(w) == w[8]
AsU16(w) == w[7] * 256 + w[8]

\* A variant of TileRef::new with the size in the low byte and the chunk on top.
TileRef_new_SizeLow(size, index, chunk) ==
    WordOr(WordOr(U64(size), WordShl(WordMod2p40(index), 8)), WordShl(U64(chunk), 48))

\* A variant of TileRef::new that does not reduce the index.
TileRef_new_NoWrap(size, index, chunk) ==
    WordOr(WordOr(U64(chunk), WordShl(index, 16)), WordShl(U64(size), 56))

\* A variant of TileRef::new that shifts the index by one byte only.
TileRef_new_Shift8(size, index, chunk) ==
    WordOr(WordOr(U64(chunk), WordShl(WordMod2p40(index), 8)), WordShl(U64(size), 56))

\* TileRef::new(size, index, chunk), size being the u8 of a Pow2.
TileRef_new(size, index, chunk) ==
    WordOr(WordOr(U64(chunk), WordShl(WordMod2p40(index), 16)), WordShl(U64(size), 56))

\* The masks of TileRef::deconstruct.
MaskSize == << 255, 0, 0, 0, 0, 0, 0, 0 >>
MaskIndex == << 0, 255, 255, 255, 255, 255, 0, 0 >>
MaskChunk == << 0, 0, 0, 0, 0, 0, 255, 255 >>

\* TileRef::deconstruct: <<size, index, chunk>>.
deconstruct(ref) ==
    << AsU8(WordShr(WordAnd(ref, MaskSize), 56)),
       WordShr(WordAnd(ref, MaskIndex), 16),
       AsU16(WordAnd(ref, MaskChunk)) >>

(***************************************************************************)
(* Pyramid metadata.                                                       *)
(***************************************************************************)
\* Pow2::from: the exponent of a power of two.
Pow2From(i) == 32 - leading_zeros(i) - 1

\* The same on the whole range of u32, a value being its four bytes, most
\* significant first.  OneBits is count_ones, LeadingZerosU32 is leading_zeros.
RECURSIVE OneBits(_)
OneBits(b) == IF b = 0 THEN 0 ELSE (b % 2) + OneBits(b \div 2)

is_power_of_two(w) == OneBits(w[1]) + OneBits(w[2]) + OneBits(w[3]) + OneBits(w[4]) = 1

LeadingZerosU32(w) ==
    IF w = << 0, 0, 0, 0 >> THEN 32
    ELSE LET k == CHOOSE k \in 1 .. 4 : w[k] # 0 /\ \A j \in 1 .. (k - 1) : w[j] = 0
         IN  8 * (k - 1) + (8 - BitLen(w[k]))

\* A variant of Pow2::from that yields the bit length of its argument.
Pow2_from_BitLength(w) ==
    IF ~ is_power_of_two(w) THEN None ELSE Some(32 - LeadingZerosU32(w))

\* Pow2::from(i): the assertion fails (None here) unless i is a power of two.
Pow2_from(w) ==
    IF ~ is_power_of_two(w) THEN None ELSE Some(32 - LeadingZerosU32(w) - 1)

\* Pow2(e).u32(): 1 << e, for an exponent below the width of u32.
Pow2_u32(e) == [ k \in 1 .. 4 |-> IF 4 - k = e \div 8 THEN Pow(2, e % 8) ELSE 0 ]

\* Pixel dimensions of level l of a generated pyramid.
LevelImgSize(l) == << 48 * Pow(4, l), 32 >>

\* Number of tiles of level l (the row-major tile grid of the level).
TilesAt(l) == IF l = NumLevels - 1 THEN 2 ELSE 1

\* Thumb::max_dimension and Thumb::size.
max_dimension(thumb) == Max(thumb.img_size[1], thumb.img_size[2])
size(thumb) == next_power_of_two(max_dimension(thumb))

\* The level-l Thumb of the pyramid generated under sequence index idx.
ThumbOf(idx, l) ==
    [ img_size  |-> LevelImgSize(l),
      tile_refs |-> [ c \in 1 .. TilesAt(l) |->
                        TileRef_new(Pow2From(next_power_of_two(LevelImgSize(l)[1])), U64(idx), c - 1) ] ]

\* The Metadata (thumbs, in level order) generated under sequence index idx.
MakeMetadata(idx) == [ l \in 1 .. NumLevels |-> ThumbOf(idx, l - 1) ]

\* The same, tabulated over the sequence ids of two runs.
MetadataTable == [ idx \in 0 .. (2 * NumImages + 2) |-> MakeMetadata(idx) ]
MetadataOf(idx) == MetadataTable[idx]

\* Every tile of a Metadata, in TileMap (BTreeMap<TileRef, _>) key order.
RECURSIVE TilesInOrder(_, _)
TilesInOrder(thumbs, l) ==
    IF l > Len(thumbs) THEN << >>
    ELSE thumbs[l].tile_refs \o TilesInOrder(thumbs, l + 1)

AllTileRefs(thumbs) == UNION { SeqToSet(thumbs[l].tile_refs) : l \in 1 .. Len(thumbs) }

\* Metadata::nearest: index (0-based) of the level whose size is nearest in
\* bit length to target_size; the first index wins ties.
\* A variant of the scan in which a later level of equal distance replaces
\* the one found.
RECURSIVE NearestFrom_LastWins(_, _, _, _)
NearestFrom_LastWins(thumbs, ts_zeros, i, found) ==
    IF i > Len(thumbs) THEN found
    ELSE LET size_zeros == leading_zeros(size(thumbs[i]))
             dist == Abs(ts_zeros - size_zeros)
         IN  IF found = None THEN NearestFrom_LastWins(thumbs, ts_zeros, i + 1, << dist, i - 1 >>)
             ELSE IF dist <= found[1]
                  THEN NearestFrom_LastWins(thumbs, ts_zeros, i + 1, << dist, i - 1 >>)
                  ELSE NearestFrom_LastWins(thumbs, ts_zeros, i + 1, found)

RECURSIVE NearestFrom(_, _, _, _)
NearestFrom(thumbs, ts_zeros, i, found) ==
    IF i > Len(thumbs) THEN found
    ELSE LET size_zeros == leading_zeros(size(thumbs[i]))
             dist == Abs(ts_zeros - size_zeros)
         IN  IF found = None THEN NearestFrom(thumbs, ts_zeros, i + 1, << dist, i - 1 >>)
             ELSE IF dist < found[1]
                  THEN NearestFrom(thumbs, ts_zeros, i + 1, << dist, i - 1 >>)
                  ELSE NearestFrom(thumbs, ts_zeros, i + 1, found)

nearest(thumbs, target_size) == NearestFrom(thumbs, leading_zeros(target_size), 1, None)[2]

(***************************************************************************)
(* MetadataState.                                                          *)
(***************************************************************************)
Unknown == [ tag |-> "Unknown" ]
Missing == [ tag |-> "Missing" ]
Errored == [ tag |-> "Errored" ]
SomeMetadata(thumbs) == [ tag |-> "Some", thumbs |-> thumbs ]

(***************************************************************************)
(* State.                                                                  *)
(***************************************************************************)
VARIABLES
    num_images,   \* View.num_images: the number of files main enumerated
    base_id,      \* App.base_id: db.reserve(files.len())
    grid_size,    \* Groups.grid_size
    group_size,   \* Groups.group_size
    groups,       \* Groups.groups: group coordinates -> Group
    view_grid,    \* View.grid_size, as App::update reads it
    focus_none,   \* App.focus is None
    db_tiles,     \* the store's tile table: the addresses that are present
    db_meta,      \* the store's metadata table: file -> Metadata
    orphans,      \* running jobs whose handle was dropped
    pc,           \* position of the control thread: <<stage, group number>>
    panicked,     \* the process has aborted
    fn_in,        \* the arguments of the pure function under check
    fn_out        \* its result, once it has been applied

vars == << num_images, base_id, grid_size, group_size, groups, view_grid, focus_none,
           db_tiles, db_meta, orphans, pc, panicked, fn_in, fn_out >>

\* What no operation of the running viewer changes.
fixed == << num_images, base_id, fn_in, fn_out >>

\* Target sizes App::target_size() yields (powers of two).
TargetSizes == { 1, 256, size(ThumbOf(0, NumLevels - 1)) }

\* Grid widths the view computes for the window (View::reset).
GridWidths == { 2, 8 }

\* View::reset's grid for grid width w: <<w, ceil(num_images / w)>>.
ViewGridOf(w) == << w, (num_images + w - 1) \div w >>

(***************************************************************************)
(* image::Image and Group.                                                 *)
(***************************************************************************)
\* image::Image::from(i, file).
ImageFrom(i) == [ i |-> i, metadata |-> Unknown, size |-> None ]

\* image::Image::is_missing.
is_missing(image) == image.metadata = Missing

\* image::Image::reset.
ImageReset(image) == [ image EXCEPT !.size = None ]

EmptyMap == [ k \in {} |-> None ]

\* Group::default().
GroupDefault ==
    [ tiles         |-> {},
      images        |-> EmptyMap,
      cache_todo    |-> << >>,
      thumb_todo    |-> << >>,
      thumb_handles |-> EmptyMap ]

\* A variant of i2c that divides by the grid height.
i2c_ByHeight(i, grid) == << i % grid[2], i \div grid[2] >>

i2c(i, grid) == << i % grid[1], i \div grid[1] >>

group_size_from_grid_size(grid) ==
    << Max(Log2Floor(grid[1]), 1), Max(Log2Floor(grid[2]), 1) >>

\* Groups::group_coords.
group_coords(gsize, coords) == << coords[1] \div gsize[1], coords[2] \div gsize[2] >>

\* Groups::insert applied to every image of a set: each image lands in the
\* group of its grid cell, in a Group created on first insertion.
InsertAll(images, grid) ==
    LET gsize == group_size_from_grid_size(grid)
        gc(image) == group_coords(gsize, i2c(image.i, grid))
        keys == { gc(image) : image \in images }
    IN  [ g \in keys |->
            [ GroupDefault EXCEPT
                !.images = [ c \in { i2c(image.i, grid) : image \in { m \in images : gc(m) = g } }
                               |-> CHOOSE image \in images : i2c(image.i, grid) = c ] ] ]

\* A variant of Group::reset that leaves the tiles resident.
GroupReset_KeepTiles(G) ==
    [ G EXCEPT !.images = [ c \in DOMAIN G.images |-> ImageReset(G.images[c]) ],
               !.thumb_todo = << >>,
               !.cache_todo = << >> ]

\* A variant of Group::reset that also clears the in-flight map.
GroupReset_DropHandles(G) ==
    [ G EXCEPT !.images = [ c \in DOMAIN G.images |-> ImageReset(G.images[c]) ],
               !.tiles = {},
               !.thumb_todo = << >>,
               !.cache_todo = << >>,
               !.thumb_handles = EmptyMap ]

\* Group::reset.
GroupReset(G) ==
    [ G EXCEPT !.images = [ c \in DOMAIN G.images |-> ImageReset(G.images[c]) ],
               !.tiles = {},
               !.thumb_todo = << >>,
               !.cache_todo = << >> ]

\* A variant of recheck that appends to the cache-check queue it finds.
GroupRecheck_NoClear(G) ==
    [ G EXCEPT !.thumb_todo = << >>,
               !.cache_todo = @ \o SortedKeys(DOMAIN G.images) ]

\* Group::recheck.
GroupRecheck(G) ==
    [ G EXCEPT !.thumb_todo = << >>,
               !.cache_todo = SortedKeys(DOMAIN G.images) ]

(***************************************************************************)
(* Thumbnail jobs.  A handle of thumb_handles stands for its job:          *)
(* [i: the image, w: the number of store writes update_db has done,        *)
(*  st: "run" while unfinished, then the result "ok" or "err"].            *)
(***************************************************************************)
\* update_db with the metadata record written before the tiles.
UpdateDbWrites_MetadataFirst(file, thumbs) ==
    LET tiles == TilesInOrder(thumbs, 1)
    IN  << [ op |-> "set_metadata", file |-> file, metadata |-> thumbs ] >>
        \o [ k \in 1 .. Len(tiles) |-> [ op |-> "set", id |-> tiles[k] ] ]

\* Group::update_db, Ok branch: the store writes it performs, in order.
UpdateDbWrites(file, thumbs) ==
    LET tiles == TilesInOrder(thumbs, 1)
    IN  [ k \in 1 .. Len(tiles) |-> [ op |-> "set", id |-> tiles[k] ] ]
        \o << [ op |-> "set_metadata", file |-> file, metadata |-> thumbs ] >>

\* A variant of the sequence id that leaves the image's index out.
tile_id_index_NoOffset(i) == base_id

\* Group::make_thumb: the sequence id handed to the job of image i.
tile_id_index(i) == base_id + i

\* The writes of the job of image i: image.make_thumb(tile_id_index), then update_db.
JobWrites(i) == UpdateDbWrites(i, MetadataOf(tile_id_index(i)))

\* The store after one write (db.set / db.set_metadata).
TilesAfter(wr) == IF wr.op = "set" THEN db_tiles \cup { wr.id } ELSE db_tiles
MetaAfter(wr) ==
    IF wr.op = "set_metadata" THEN MapInsert(db_meta, wr.file, wr.metadata) ELSE db_meta

\* Group::make_thumb: whether coords already has a handle.
HasHandle(G, coords) == coords \in DOMAIN G.thumb_handles

\* Group::make_thumb.
make_thumb(G, coords) ==
    LET image == G.images[coords]
    IN  IF ~ is_missing(image) THEN G
        ELSE IF HasHandle(G, coords) THEN G
        ELSE [ G EXCEPT !.thumb_handles =
                 MapInsert(@, coords, [ i |-> image.i, w |-> 0, st |-> "run" ]) ]

\* A variant of the admission test with one more slot.
AdmissionClosed_ThreeSlots(G) == Cardinality(DOMAIN G.thumb_handles) > 2

\* Group::make_thumbs: whether the in-flight map bars admission.
AdmissionClosed(G) == Cardinality(DOMAIN G.thumb_handles) > 1

\* A variant of make_thumbs that empties the request queue, starting jobs
\* only while admission is open.
RECURSIVE make_thumbs_Drain(_)
make_thumbs_Drain(G) ==
    IF G.thumb_todo = << >> THEN G
    ELSE IF AdmissionClosed(G) THEN make_thumbs_Drain([ G EXCEPT !.thumb_todo = Tail(@) ])
    ELSE make_thumbs_Drain(make_thumb([ G EXCEPT !.thumb_todo = Tail(@) ], Head(G.thumb_todo)))

\* Group::make_thumbs.
RECURSIVE make_thumbs(_)
make_thumbs(G) ==
    IF AdmissionClosed(G) THEN G
    ELSE IF G.thumb_todo = << >> THEN G
    ELSE make_thumbs(make_thumb([ G EXCEPT !.thumb_todo = Tail(@) ], Head(G.thumb_todo)))

\* A variant of the select! body that does not requeue the image on success.
ApplyResult_NoEnqueue(G, coords) ==
    LET h == G.thumb_handles[coords]
    IN  IF h.st = "ok"
        THEN [ G EXCEPT !.images[coords].metadata = SomeMetadata(MetadataOf(base_id + h.i)) ]
        ELSE [ G EXCEPT !.images[coords].metadata = Errored ]

\* Group::recv_thumbs, the body of its select!: the result of a finished job.
ApplyResult(G, coords) ==
    LET h == G.thumb_handles[coords]
    IN  IF h.st = "ok"
        THEN [ G EXCEPT !.cache_todo = << coords >> \o @,
                        !.images[coords].metadata = SomeMetadata(MetadataOf(base_id + h.i)) ]
        ELSE [ G EXCEPT !.images[coords].metadata = Errored ]

\* A variant of the poll that waits for the job, so every poll finds a result.
PollReady_Always(h) == TRUE

\* A variant of the poll that never finds a result.
PollReady_Never(h) == FALSE

\* Group::recv_thumbs: whether a poll of the handle finds the job finished.
PollReady(h) == h.st # "run"

\* Group::recv_thumbs, the loop over the handles in key order.
RECURSIVE RecvLoop(_, _)
RecvLoop(G, cs) ==
    IF cs = << >> THEN G
    ELSE IF PollReady(G.thumb_handles[Head(cs)])
         THEN RecvLoop(ApplyResult(G, Head(cs)), Tail(cs))
         ELSE RecvLoop(G, Tail(cs))

\* Group::recv_thumbs.
recv_thumbs(G) ==
    LET done == { c \in DOMAIN G.thumb_handles : PollReady(G.thumb_handles[c]) }
        G1 == RecvLoop(G, SortedKeys(DOMAIN G.thumb_handles))
    IN  [ G1 EXCEPT !.thumb_handles = MapRemove(@, done) ]

(***************************************************************************)
(* Group::load_cache.                                                      *)
(***************************************************************************)
\* A variant of the lookup that takes a failure of the store for an absent record.
LookupMetadata_ErrAsMissing(file, err) ==
    IF err THEN Missing
    ELSE IF file \in DOMAIN db_meta THEN SomeMetadata(db_meta[file])
    ELSE Missing

\* The first lookup of an Unknown image: db.get_metadata(file), err when the
\* store fails.
LookupMetadata(file, err) ==
    IF err THEN Errored
    ELSE IF file \in DOMAIN db_meta THEN SomeMetadata(db_meta[file])
    ELSE Missing

\* The shift of the target size: 0 for a visible image, else the floor of
\* max(0, visible_ratio - 1).
ShiftOf(is_visible, ratio_floor) == IF is_visible THEN 0 ELSE ratio_floor

\* x >> s on u32, for a shift below the width.
Shr(x, s) == x \div Pow(2, s)

\* target_size >> shift, a u32 shifted by a usize: for a shift of 32 or more
\* the build with overflow checks panics (None here), and the build without
\* them shifts by shift % 32.
CheckedShr(x, s, overflow_checks) ==
    IF s < 32 THEN Some(Shr(x, s))
    ELSE IF overflow_checks THEN None
    ELSE Some(Shr(x, s % 32))

\* A variant of the resizing that jumps to the target level.
ProgressiveStep_Jump(new_size, current_size) == new_size

\* A variant of the resizing that steps away from the target level.
ProgressiveStep_Away(new_size, current_size) ==
    IF new_size < current_size THEN current_size + 1
    ELSE IF new_size > current_size THEN current_size - 1
    ELSE current_size

\* Progressive resizing: one level from current_size toward new_size.
ProgressiveStep(new_size, current_size) ==
    IF new_size < current_size THEN current_size - 1
    ELSE IF new_size > current_size THEN current_size + 1
    ELSE current_size

LevelTiles(thumbs, j) == SeqToSet(thumbs[j + 1].tile_refs)

\* Whether metadata.thumbs[j] is in range (the indexing panics otherwise).
InRange(thumbs, j) == j \in 0 .. (Len(thumbs) - 1)

\* "Load new tiles": the tiles of the new level join the resident ones.
LoadTiles(tiles, thumbs, new_size) == tiles \cup LevelTiles(thumbs, new_size)

\* A variant of the unloading that removes the lower levels only.
UnloadTiles_Below(tiles, thumbs, new_size) ==
    tiles \ UNION { LevelTiles(thumbs, j) : j \in 0 .. (new_size - 1) }

\* "Unload old tiles": the tiles of every other level are removed.
UnloadTiles(tiles, thumbs, new_size) ==
    tiles \ UNION { LevelTiles(thumbs, j) : j \in (0 .. (Len(thumbs) - 1)) \ { new_size } }

\* A variant of the Missing branch that queues nothing.
RequestThumb_Dropped(G, coords) == G

\* load_cache on a Missing image: a generation request is queued.
RequestThumb(G, coords) == [ G EXCEPT !.thumb_todo = Append(@, coords) ]

\* A variant of the lookup test that retries an Errored image.
LookupNeeded_Retry(metadata) == metadata = Unknown \/ metadata = Errored

\* load_cache looks the metadata up only while the state is Unknown.
LookupNeeded(metadata) == metadata = Unknown


\* A variant of the requeueing that puts the image at the front.
Requeue_Front(q, coords) == << coords >> \o q

\* load_cache after a level change: self.cache_todo.push_back(coords).
Requeue(q, coords) == Append(q, coords)

\* A variant of the failed fetch that marks the image Errored and goes on.
FetchFailure_Errored(G, coords) ==
    [ G |-> [ G EXCEPT !.images[coords].metadata = Errored ], panic |-> FALSE ]

\* "Load new tiles" when db.get fails or returns no tile, or the payload does
\* not decode: the expect()s panic.
FetchFailure(G, coords) == [ G |-> G, panic |-> TRUE ]

\* Whether load_cache will fetch a tile from the store: the image it pops is
\* Some (after its lookup), not at its target level, and a tile of the level it
\* steps to is not resident.
NeedsFetch(G, target_size, shift, md_err, overflow_checks) ==
    /\ G.cache_todo # << >>
    /\ LET image == G.images[Head(G.cache_todo)]
           md == IF LookupNeeded(image.metadata) THEN LookupMetadata(image.i, md_err)
                 ELSE image.metadata
           shifted == CheckedShr(target_size, shift, overflow_checks)
       IN  /\ md.tag = "Some"
           /\ shifted # None
           /\ LET target == nearest(md.thumbs, shifted[1])
                  current_size == unwrap_or(image.size, 0)
              IN  /\ target # current_size
                  /\ InRange(md.thumbs, ProgressiveStep(target, current_size))
                  /\ LevelTiles(md.thumbs, ProgressiveStep(target, current_size)) \ G.tiles # {}

\* The Group after load_cache, and whether the call panicked (a tile that is
\* absent from the store, or a store read or decode that fails: fetch_ok false;
\* a shift of the target size that overflows, in a build that checks it; a
\* level index out of range).
load_cache(G, target_size, shift, md_err, fetch_ok, overflow_checks) ==
    IF G.cache_todo = << >> THEN [ G |-> G, panic |-> FALSE ]
    ELSE
    LET coords == Head(G.cache_todo)
        G1 == [ G EXCEPT !.cache_todo = Tail(@) ]
        image == G1.images[coords]
        md == IF LookupNeeded(image.metadata) THEN LookupMetadata(image.i, md_err)
              ELSE image.metadata
        G2 == [ G1 EXCEPT !.images[coords].metadata = md ]
        shifted == CheckedShr(target_size, shift, overflow_checks)
    IN  IF md = Missing
        THEN [ G |-> RequestThumb(G2, coords), panic |-> FALSE ]
        ELSE IF md = Errored THEN [ G |-> G2, panic |-> FALSE ]
        ELSE IF shifted = None THEN [ G |-> G2, panic |-> TRUE ]
        ELSE
        LET target == nearest(md.thumbs, shifted[1])
            current_size == unwrap_or(image.size, 0)
            new_size == ProgressiveStep(target, current_size)
            needed == LevelTiles(md.thumbs, new_size) \ G2.tiles
        IN  IF target = current_size THEN [ G |-> G2, panic |-> FALSE ]
            ELSE IF ~ InRange(md.thumbs, new_size) THEN [ G |-> G2, panic |-> TRUE ]
            ELSE IF needed # {} /\ (~ fetch_ok \/ ~ (needed \subseteq db_tiles))
            THEN FetchFailure(G2, coords)
            ELSE [ G |-> [ G2 EXCEPT
                             !.tiles = UnloadTiles(LoadTiles(@, md.thumbs, new_size),
                                                   md.thumbs, new_size),
                             !.images[coords].size = Some(new_size),
                             !.cache_todo = Requeue(@, coords) ],
                   panic |-> FALSE ]

(***************************************************************************)
(* Initial state: App::new after main has enumerated n files and reserved  *)
(* their sequence ids.  The store may hold the complete pyramids an        *)
(* earlier run generated for some of the files, under that run's sequence  *)
(* ids 0 .. n - 1; the reservation of this run follows them.               *)
(***************************************************************************)
InitProgram(n, caches) ==
    /\ num_images = n
    /\ base_id = n
    /\ grid_size = << 1, 1 >>
    /\ group_size = group_size_from_grid_size(<< 1, 1 >>)
    /\ groups = InsertAll({ ImageFrom(i) : i \in 0 .. (n - 1) }, << 1, 1 >>)
    /\ view_grid = << 1, 1 >>
    /\ focus_none = TRUE
    /\ \E cached \in caches :
         /\ db_meta = [ f \in cached |-> MetadataOf(f) ]
         /\ db_tiles = UNION { AllTileRefs(MetadataOf(f)) : f \in cached }
    /\ orphans = {}
    /\ pc = << "idle", 0 >>
    /\ panicked = FALSE

\* The program with n files; no pure function is under check.
InitFiles(n, caches) ==
    /\ InitProgram(n, caches)
    /\ fn_in = [ stage |-> "none" ]
    /\ fn_out = [ stage |-> "none" ]

Init == InitFiles(NumImages, SUBSET (0 .. (NumImages - 1)))

GroupKeys == SortedKeys(DOMAIN groups)

\* The group the control thread is at.
CurGroup == GroupKeys[pc[2]]

(***************************************************************************)
(* Events between two updates (the control thread is idle).                *)
(***************************************************************************)
\* App::resize / App::reset: the view recomputes its grid, and focus is dropped.
Resize(w) ==
    /\ ~ panicked /\ pc[1] = "idle"
    /\ view_grid' = ViewGridOf(w)
    /\ focus_none' = TRUE
    /\ UNCHANGED << fixed, grid_size, group_size, groups, db_tiles, db_meta, orphans, pc, panicked >>

\* App::force_refocus (through mouse_move, trans, zoom): focus is dropped.
Refocus ==
    /\ ~ panicked /\ pc[1] = "idle"
    /\ ~ focus_none
    /\ focus_none' = TRUE
    /\ UNCHANGED << fixed, grid_size, group_size, groups, view_grid, db_tiles, db_meta, orphans, pc,
                    panicked >>

\* Groups::reset.
GroupsReset == [ g \in DOMAIN groups |-> GroupReset(groups[g]) ]

\* App::rebuild_window: every group is reset and focus is dropped.
RebuildWindow ==
    /\ ~ panicked /\ pc[1] = "idle"
    /\ groups' = GroupsReset
    /\ focus_none' = TRUE
    /\ UNCHANGED << fixed, grid_size, group_size, view_grid, db_tiles, db_meta, orphans,
                    pc, panicked >>

(***************************************************************************)
(* App::update, one step of it at a time.                                  *)
(***************************************************************************)
\* The jobs that keep running when their handle is dropped with their Group.
Dropped == { [ i |-> groups[g].thumb_handles[c].i, w |-> groups[g].thumb_handles[c].w ] :
               << g, c >> \in { gc \in (DOMAIN groups) \X (UNION { DOMAIN groups[g].thumb_handles
                                                                   : g \in DOMAIN groups }) :
                                  /\ gc[2] \in DOMAIN groups[gc[1]].thumb_handles
                                  /\ groups[gc[1]].thumb_handles[gc[2]].st = "run" } }

AllImages == UNION { { groups[g].images[c] : c \in DOMAIN groups[g].images } : g \in DOMAIN groups }

\* A variant of regroup in which a group whose key exists before and after
\* keeps its queues.
Regrouped_KeepQueues(grid) ==
    [ g \in DOMAIN InsertAll(AllImages, grid) |->
        IF g \in DOMAIN groups
        THEN [ InsertAll(AllImages, grid)[g] EXCEPT !.cache_todo = groups[g].cache_todo,
                                                   !.thumb_todo = groups[g].thumb_todo ]
        ELSE InsertAll(AllImages, grid)[g] ]

\* Groups::regroup.
Regrouped(grid) == InsertAll(AllImages, grid)

\* App::update, its start: regroup when the view's grid differs.
UpdateRegroup ==
    /\ ~ panicked /\ pc[1] = "idle"
    /\ IF view_grid # grid_size
       THEN /\ groups' = Regrouped(view_grid)
            /\ grid_size' = view_grid
            /\ group_size' = group_size_from_grid_size(view_grid)
            /\ orphans' = orphans \cup Dropped
       ELSE UNCHANGED << groups, grid_size, group_size, orphans >>
    /\ pc' = << "focus", 0 >>
    /\ UNCHANGED << fixed, view_grid, focus_none, db_tiles, db_meta, panicked >>

\* App::recalc_visible.
RecalcVisible == [ g \in DOMAIN groups |-> GroupRecheck(groups[g]) ]

\* App::update: recalc_visible when focus is None, then focus is set.
UpdateFocus ==
    /\ ~ panicked /\ pc[1] = "focus"
    /\ IF focus_none
       THEN groups' = RecalcVisible /\ focus_none' = FALSE
       ELSE UNCHANGED << groups, focus_none >>
    /\ pc' = << "recv", 1 >>
    /\ UNCHANGED << fixed, grid_size, group_size, view_grid, db_tiles, db_meta, orphans, panicked >>

\* App::update, the loop over the groups: group.recv_thumbs().
RecvThumbs ==
    /\ ~ panicked /\ pc[1] = "recv"
    /\ groups' = [ groups EXCEPT ![CurGroup] = recv_thumbs(@) ]
    /\ pc' = << "make", pc[2] >>
    /\ UNCHANGED << fixed, grid_size, group_size, view_grid, focus_none, db_tiles, db_meta, orphans,
                    panicked >>

\* group.make_thumbs(..).
MakeThumbs ==
    /\ ~ panicked /\ pc[1] = "make"
    /\ groups' = [ groups EXCEPT ![CurGroup] = make_thumbs(@) ]
    /\ pc' = << "load", pc[2] >>
    /\ UNCHANGED << fixed, grid_size, group_size, view_grid, focus_none, db_tiles, db_meta, orphans,
                    panicked >>

\* Whether load_cache will look up the metadata of the image it pops.
NeedsLookup(G) ==
    /\ G.cache_todo # << >>
    /\ LookupNeeded(G.images[Head(G.cache_todo)].metadata)

\* The builds to tell apart for a shift: with and without overflow checks
\* when the shift reaches the width of u32, and one for both below it, where
\* they compute the same.
OverflowBuilds(shift) == IF shift < 32 THEN { FALSE } ELSE BOOLEAN

\* group.load_cache(..), under the view's target size and the image's visibility.
LoadCacheWith(g, target_size, is_visible, ratio_floor, md_err, fetch_ok) ==
    /\ md_err => NeedsLookup(groups[g])
    /\ \E overflow_checks \in OverflowBuilds(ShiftOf(is_visible, ratio_floor)) :
       /\ ~ fetch_ok => NeedsFetch(groups[g], target_size, ShiftOf(is_visible, ratio_floor),
                                   md_err, overflow_checks)
       /\ \E r \in { load_cache(groups[g], target_size, ShiftOf(is_visible, ratio_floor),
                                md_err, fetch_ok, overflow_checks) } :
           /\ groups' = [ groups EXCEPT ![g] = r.G ]
           /\ panicked' = r.panic
           /\ pc' = IF r.panic THEN pc
                    ELSE IF pc[2] < Cardinality(DOMAIN groups) THEN << "recv", pc[2] + 1 >>
                    ELSE << "idle", 0 >>
    /\ UNCHANGED << fixed, grid_size, group_size, view_grid, focus_none, db_tiles, db_meta, orphans >>

(***************************************************************************)
(* The worker pool.                                                        *)
(***************************************************************************)
\* A job's thumbnailer fails (before update_db writes anything).
JobFail(g, c) ==
    /\ ~ panicked
    /\ g \in DOMAIN groups /\ c \in DOMAIN groups[g].thumb_handles
    /\ groups[g].thumb_handles[c].st = "run"
    /\ groups[g].thumb_handles[c].w = 0
    /\ groups' = [ groups EXCEPT ![g].thumb_handles[c].st = "err" ]
    /\ UNCHANGED << fixed, grid_size, group_size, view_grid, focus_none, db_tiles, db_meta, orphans,
                    pc, panicked >>

\* A job performs its next store write; after the last one it returns Ok.
JobWrite(g, c) ==
    /\ ~ panicked
    /\ g \in DOMAIN groups /\ c \in DOMAIN groups[g].thumb_handles
    /\ LET h == groups[g].thumb_handles[c]
           ws == JobWrites(h.i)
       IN  /\ h.st = "run"
           /\ db_tiles' = TilesAfter(ws[h.w + 1])
           /\ db_meta' = MetaAfter(ws[h.w + 1])
           /\ groups' = [ groups EXCEPT ![g].thumb_handles[c] =
                            [ h EXCEPT !.w = h.w + 1,
                                       !.st = IF h.w + 1 = Len(ws) THEN "ok" ELSE "run" ] ]
    /\ UNCHANGED << fixed, grid_size, group_size, view_grid, focus_none, orphans, pc, panicked >>

\* A job whose handle was dropped before it started is cancelled (or fails).
OrphanCancel(o) ==
    /\ ~ panicked
    /\ o \in orphans /\ o.w = 0
    /\ orphans' = orphans \ { o }
    /\ UNCHANGED << fixed, grid_size, group_size, groups, view_grid, focus_none, db_tiles, db_meta,
                    pc, panicked >>

\* A job whose handle was dropped performs its next store write.
OrphanWrite(o) ==
    /\ ~ panicked
    /\ o \in orphans
    /\ LET ws == JobWrites(o.i)
       IN  /\ db_tiles' = TilesAfter(ws[o.w + 1])
           /\ db_meta' = MetaAfter(ws[o.w + 1])
           /\ orphans' = (orphans \ { o }) \cup
                           (IF o.w + 1 = Len(ws) THEN {} ELSE { [ o EXCEPT !.w = o.w + 1 ] })
    /\ UNCHANGED << fixed, grid_size, group_size, groups, view_grid, focus_none, pc, panicked >>

\* The store after the writes ws[k ..], applied in order.
RECURSIVE TilesAfterAll(_, _, _)
TilesAfterAll(ws, k, tiles) ==
    IF k > Len(ws) THEN tiles
    ELSE TilesAfterAll(ws, k + 1, IF ws[k].op = "set" THEN tiles \cup { ws[k].id } ELSE tiles)

RECURSIVE MetaAfterAll(_, _, _)
MetaAfterAll(ws, k, meta) ==
    IF k > Len(ws) THEN meta
    ELSE MetaAfterAll(ws, k + 1,
                      IF ws[k].op = "set_metadata"
                      THEN MapInsert(meta, ws[k].file, ws[k].metadata) ELSE meta)

\* A job runs to its end: every write of update_db, then Ok.
JobRun(g, c) ==
    /\ ~ panicked
    /\ g \in DOMAIN groups /\ c \in DOMAIN groups[g].thumb_handles
    /\ LET h == groups[g].thumb_handles[c]
           ws == JobWrites(h.i)
       IN  /\ h.st = "run" /\ h.w = 0
           /\ db_tiles' = TilesAfterAll(ws, 1, db_tiles)
           /\ db_meta' = MetaAfterAll(ws, 1, db_meta)
           /\ groups' = [ groups EXCEPT ![g].thumb_handles[c] =
                            [ h EXCEPT !.w = Len(ws), !.st = "ok" ] ]
    /\ UNCHANGED << fixed, grid_size, group_size, view_grid, focus_none, orphans, pc, panicked >>

\* A job whose handle was dropped runs to its end.
OrphanRun(o) ==
    /\ ~ panicked
    /\ o \in orphans /\ o.w = 0
    /\ LET ws == JobWrites(o.i)
       IN  /\ db_tiles' = TilesAfterAll(ws, 1, db_tiles)
           /\ db_meta' = MetaAfterAll(ws, 1, db_meta)
           /\ orphans' = orphans \ { o }
    /\ UNCHANGED << fixed, grid_size, group_size, groups, view_grid, focus_none, pc, panicked >>

\* The (is_visible, floor(max(0, visible_ratio - 1))) pairs the view yields: a
\* visible image lies within the window, where the ratio stays below 2.
ViewInputs == { << TRUE, 0 >> } \cup ({ FALSE } \X (0 .. MaxShift))

\* group.load_cache(..) under the target sizes and visibilities of a set of views.
LoadCacheIn(target_sizes, view_inputs) ==
    /\ ~ panicked /\ pc[1] = "load"
    /\ \E g \in { CurGroup }, target_size \in target_sizes, vi \in view_inputs,
          md_err \in BOOLEAN, fetch_ok \in BOOLEAN :
          LoadCacheWith(g, target_size, vi[1], vi[2], md_err, fetch_ok)

LoadCache == LoadCacheIn(TargetSizes, ViewInputs)

Next ==
    \/ \E w \in GridWidths : Resize(w)
    \/ Refocus
    \/ RebuildWindow
    \/ UpdateRegroup
    \/ UpdateFocus
    \/ RecvThumbs
    \/ MakeThumbs
    \/ LoadCache
    \/ \E g \in DOMAIN groups : \E c \in DOMAIN groups[g].thumb_handles : JobFail(g, c)
    \/ \E g \in DOMAIN groups : \E c \in DOMAIN groups[g].thumb_handles : JobRun(g, c)
    \/ \E o \in orphans : OrphanCancel(o)
    \/ \E o \in orphans : OrphanRun(o)

Spec == Init /\ [][Next]_vars

(***************************************************************************)
(* The same program with the workers' store writes taken one at a time,    *)
(* under a view that stays zoomed out (target size 1, every image visible) *)
(* and whose grid, once computed, is 8 wide.                               *)
(***************************************************************************)
LoadCacheZoomedOut == LoadCacheIn({ 1 }, { << TRUE, 0 >> })

NextDb ==
    \/ Resize(8)
    \/ Refocus
    \/ UpdateRegroup
    \/ UpdateFocus
    \/ RecvThumbs
    \/ MakeThumbs
    \/ LoadCacheZoomedOut
    \/ \E g \in DOMAIN groups : \E c \in DOMAIN groups[g].thumb_handles : JobFail(g, c)
    \/ \E g \in DOMAIN groups : \E c \in DOMAIN groups[g].thumb_handles : JobWrite(g, c)
    \/ \E o \in orphans : OrphanCancel(o)
    \/ \E o \in orphans : OrphanWrite(o)

SpecDb == Init /\ [][NextDb]_vars

(***************************************************************************)
(* Startup: the window is sized before the first frame, and from then on   *)
(* only frames and worker steps happen (no further resize, refocus or      *)
(* window rebuild).                                                        *)
(***************************************************************************)
ResizeBeforeFirstFrame(w) ==
    /\ focus_none /\ grid_size = << 1, 1 >>
    /\ Resize(w)

NextStartup ==
    \/ \E w \in GridWidths : ResizeBeforeFirstFrame(w)
    \/ UpdateRegroup
    \/ UpdateFocus
    \/ RecvThumbs
    \/ MakeThumbs
    \/ LoadCache
    \/ \E g \in DOMAIN groups : \E c \in DOMAIN groups[g].thumb_handles : JobFail(g, c)
    \/ \E g \in DOMAIN groups : \E c \in DOMAIN groups[g].thumb_handles : JobRun(g, c)

SpecStartup == Init /\ [][NextStartup]_vars

(***************************************************************************)
(* The thumbnail pipeline of one more file, none of them cached by an      *)
(* earlier run, under a view that stays zoomed out and whose grid, once    *)
(* computed, is 8 wide (so that one group holds three images).             *)
(***************************************************************************)
InitPipeline == InitFiles(NumImages + 1, { {} })

NextPipeline ==
    \/ Resize(8)
    \/ Refocus
    \/ UpdateRegroup
    \/ UpdateFocus
    \/ RecvThumbs
    \/ MakeThumbs
    \/ LoadCacheZoomedOut
    \/ \E g \in DOMAIN groups : \E c \in DOMAIN groups[g].thumb_handles : JobFail(g, c)
    \/ \E g \in DOMAIN groups : \E c \in DOMAIN groups[g].thumb_handles : JobRun(g, c)
    \/ \E o \in orphans : OrphanCancel(o)
    \/ \E o \in orphans : OrphanRun(o)

SpecPipeline == InitPipeline /\ [][NextPipeline]_vars

(***************************************************************************)
(* Properties.                                                             *)
(***************************************************************************)
\* Every handle of every group, with its group and coordinates.
Handles ==
    UNION { { [ g |-> g, c |-> c, h |-> groups[g].thumb_handles[c] ] :
                c \in DOMAIN groups[g].thumb_handles } : g \in DOMAIN groups }

\* C1: in every state of the store, also between any two writes of a running
\* or abandoned job, a file whose metadata record is present has every tile
\* address that record references present in the store.
C1_TilesBeforeMetadata ==
    \A f \in DOMAIN db_meta : AllTileRefs(db_meta[f]) \subseteq db_tiles

\* C1 witness: an abandoned job has written all its tiles and not its metadata
\* record, and a lookup of its file's metadata finds nothing.
C1_Witness ==
    \E o \in orphans :
        /\ o.w = Len(JobWrites(o.i)) - 1
        /\ o.w >= 2
        /\ o.i \notin DOMAIN db_meta


(***************************************************************************)
(* The program under a view that stays zoomed in on visible images (the    *)
(* largest target size), so that every Loaded image load_cache pops steps  *)
(* toward its top level.                                                   *)
(***************************************************************************)
LoadCacheZoomedIn == LoadCacheIn({ size(ThumbOf(0, NumLevels - 1)) }, { << TRUE, 0 >> })

NextReset ==
    \/ \E w \in GridWidths : Resize(w)
    \/ Refocus
    \/ RebuildWindow
    \/ UpdateRegroup
    \/ UpdateFocus
    \/ RecvThumbs
    \/ MakeThumbs
    \/ LoadCacheZoomedIn
    \/ \E g \in DOMAIN groups : \E c \in DOMAIN groups[g].thumb_handles : JobFail(g, c)
    \/ \E g \in DOMAIN groups : \E c \in DOMAIN groups[g].thumb_handles : JobRun(g, c)
    \/ \E o \in orphans : OrphanCancel(o)
    \/ \E o \in orphans : OrphanRun(o)

SpecReset == Init /\ [][NextReset]_vars

(***************************************************************************)
(* The TileRef codec applied to chosen arguments: TileRef::new, then        *)
(* deconstruct on its result.                                              *)
(***************************************************************************)
SizeInputs == { 0, 7, 255 }
ChunkInputs == { 0, 255, 256, 65535 }
\* u64 indices: the low five bytes all-zero or all-one each, the high three
\* bytes zero (index < 2^40), one, or all-one.
IndexInputs ==
    { hi \o lo : hi \in { << 0, 0, 0 >>, << 0, 0, 1 >>, << 255, 255, 255 >> },
                 lo \in [ 1 .. 5 -> { 0, 255 } ] }

IndexBelow2p40(index) == index[1] = 0 /\ index[2] = 0 /\ index[3] = 0

InitCodec ==
    /\ InitProgram(NumImages, { {} })
    /\ fn_in \in [ size : SizeInputs, index : IndexInputs, chunk : ChunkInputs ]
    /\ fn_out = [ stage |-> "none" ]

program == << num_images, base_id, grid_size, group_size, groups, view_grid, focus_none,
              db_tiles, db_meta, orphans, pc, panicked >>

\* TileRef::new(size, index, chunk).
CallTileRefNew ==
    /\ fn_out.stage = "none"
    /\ fn_out' = [ stage |-> "ref", ref |-> TileRef_new(fn_in.size, fn_in.index, fn_in.chunk) ]
    /\ UNCHANGED << program, fn_in >>

\* .deconstruct() on the address just built.
CallDeconstruct ==
    /\ fn_out.stage = "ref"
    /\ fn_out' = [ stage |-> "triple", ref |-> fn_out.ref, triple |-> deconstruct(fn_out.ref) ]
    /\ UNCHANGED << program, fn_in >>

NextCodec == CallTileRefNew \/ CallDeconstruct

SpecCodec == InitCodec /\ [][NextCodec]_vars

(***************************************************************************)
(* Two addresses built by TileRef::new and compared as BTreeMap keys        *)
(* (the derived Ord of TileRef(u64): the numeric order of the words).      *)
(***************************************************************************)
\* a < b on u64: the first differing byte, most significant first, decides.
WordLess(a, b) ==
    \E k \in 1 .. 8 : a[k] < b[k] /\ \A j \in 1 .. (k - 1) : a[j] = b[j]

\* u64 indices of the pairs: 0, 1, 2^32, 2^40 - 1, 2^40 and 2^64 - 1.
OrderIndexInputs ==
    { << 0, 0, 0, 0, 0, 0, 0, 0 >>, << 0, 0, 0, 0, 0, 0, 0, 1 >>,
      << 0, 0, 0, 1, 0, 0, 0, 0 >>, << 0, 0, 0, 255, 255, 255, 255, 255 >>,
      << 0, 0, 1, 0, 0, 0, 0, 0 >>, << 255, 255, 255, 255, 255, 255, 255, 255 >> }

OrderInputs == [ size : SizeInputs, index : OrderIndexInputs, chunk : ChunkInputs ]

InitOrder ==
    /\ InitProgram(NumImages, { {} })
    /\ fn_in \in [ a : OrderInputs, b : OrderInputs ]
    /\ fn_out = [ stage |-> "none" ]

\* TileRef::new on both triples.
CallTileRefNewPair ==
    /\ fn_out.stage = "none"
    /\ fn_out' = [ stage |-> "refs",
                   a |-> TileRef_new(fn_in.a.size, fn_in.a.index, fn_in.a.chunk),
                   b |-> TileRef_new(fn_in.b.size, fn_in.b.index, fn_in.b.chunk) ]
    /\ UNCHANGED << program, fn_in >>

\* a < b of the two addresses.
CallCompare ==
    /\ fn_out.stage = "refs"
    /\ fn_out' = [ stage |-> "cmp", a |-> fn_out.a, b |-> fn_out.b,
                   less |-> WordLess(fn_out.a, fn_out.b) ]
    /\ UNCHANGED << program, fn_in >>

NextOrder == CallTileRefNewPair \/ CallCompare

SpecOrder == InitOrder /\ [][NextOrder]_vars

(***************************************************************************)
(* Metadata::nearest applied to chosen level lists and target sizes.       *)
(***************************************************************************)
\* img_size of the levels: larger dimensions 1, 64, 256, 300, 1024 and 3000,
\* in either position.
ImgSizeInputs ==
    { << 1, 1 >>, << 64, 48 >>, << 100, 256 >>, << 300, 200 >>, << 1024, 768 >>, << 2000, 3000 >> }

NearestTargetInputs == { 0, 1, 2, 64, 128, 300, 512, 1024, 4096 }

\* Level lists of one to three levels, in any order.
ThumbsInputs ==
    UNION { [ 1 .. n -> { [ img_size |-> d, tile_refs |-> << >> ] : d \in ImgSizeInputs } ]
              : n \in 1 .. 3 }

InitNearest ==
    /\ InitProgram(NumImages, { {} })
    /\ fn_in \in [ thumbs : ThumbsInputs, target_size : NearestTargetInputs ]
    /\ fn_out = [ stage |-> "none" ]

\* metadata.nearest(target_size).
CallNearest ==
    /\ fn_out.stage = "none"
    /\ fn_out' = [ stage |-> "nearest", i |-> nearest(fn_in.thumbs, fn_in.target_size) ]
    /\ UNCHANGED << program, fn_in >>

NextNearest == CallNearest

SpecNearest == InitNearest /\ [][NextNearest]_vars

(***************************************************************************)
(* Helpers of the properties below.                                        *)
(***************************************************************************)
ImageIds == 0 .. (num_images - 1)

\* The record of image i, whichever group owns it.
ImageOf(i) == CHOOSE m \in AllImages : m.i = i

\* The number of times x occurs in a queue.
Count(q, x) == Cardinality({ k \in 1 .. Len(q) : q[k] = x })

\* The jobs of image i that have not finished: those a handle stands for and
\* those whose handle was dropped.
UnfinishedJobs(i) ==
    { x \in Handles : x.h.i = i /\ x.h.st = "run" } \cup { o \in orphans : o.i = i }

\* The step is group.recv_thumbs() / make_thumbs() / load_cache() of CurGroup.
IsRecvStep == pc[1] = "recv" /\ pc'[1] = "make"
IsMakeStep == pc[1] = "make" /\ pc'[1] = "load"
IsLoadStep == pc[1] = "load" /\ pc' # pc

\* C2: no image has two generation jobs outstanding at once.
C2_OneJobPerImage ==
    \A i \in ImageIds : Cardinality(UnfinishedJobs(i)) <= 1

\* C3: every load_cache call that changes the loaded level of an image moves
\* it by exactly one index from its current level (an image with no level
\* loaded counts as being at level 0, as load_cache takes it) toward
\* nearest(target_size >> shift): up when the target is above, down when below.
C3_StepsByOne ==
    [][ IsLoadStep =>
          \A ts \in TargetSizes, vi \in ViewInputs, e \in BOOLEAN, f \in BOOLEAN :
             LoadCacheWith(CurGroup, ts, vi[1], vi[2], e, f) =>
               \A c \in DOMAIN groups[CurGroup].images :
                  LET old == groups[CurGroup].images[c]
                      new == groups'[CurGroup].images[c]
                      cur == unwrap_or(old.size, 0)
                  IN  new.size # old.size =>
                        /\ new.metadata.tag = "Some"
                        /\ LET target == nearest(new.metadata.thumbs,
                                                 Shr(ts, ShiftOf(vi[1], vi[2])))
                           IN  \/ target > cur /\ new.size = Some(cur + 1)
                               \/ target < cur /\ new.size = Some(cur - 1) ]_vars

\* C3 witness: one image has walked up to the top level and another has
\* walked back down to level 0.
C3_Witness ==
    /\ \E i \in ImageIds : ImageOf(i).size = Some(NumLevels - 1)
    /\ \E i \in ImageIds : ImageOf(i).size = Some(0)

\* C4: right after load_cache changes an image to level L_new, every tile of
\* L_new is resident in its group and no tile of another level of that image is.
C4_EvictionCorrect ==
    [][ IsLoadStep =>
          \A c \in DOMAIN groups[CurGroup].images :
             LET old == groups[CurGroup].images[c]
                 new == groups'[CurGroup].images[c]
             IN  (new.size # old.size /\ new.size # None) =>
                   /\ LevelTiles(new.metadata.thumbs, new.size[1])
                        \subseteq groups'[CurGroup].tiles
                   /\ \A j \in (0 .. (Len(new.metadata.thumbs) - 1)) \ { new.size[1] } :
                        LevelTiles(new.metadata.thumbs, j) \cap groups'[CurGroup].tiles = {} ]_vars

\* C4 witness: an image stands at a level of two tiles, both resident, having
\* come from the level below.
C4_Witness ==
    \E g \in DOMAIN groups : \E c \in DOMAIN groups[g].images :
        LET image == groups[g].images[c]
        IN  /\ image.size = Some(NumLevels - 1)
            /\ Cardinality(LevelTiles(image.metadata.thumbs, NumLevels - 1)) = 2
            /\ LevelTiles(image.metadata.thumbs, NumLevels - 1) \subseteq groups[g].tiles

\* C5, as claimed: a group never has more than one job in flight.
C5_SingleSlot ==
    \A g \in DOMAIN groups : Cardinality(DOMAIN groups[g].thumb_handles) <= 1

\* C5, amended: a group never has more than two jobs in flight (make_thumbs
\* admits while at most one is in flight, so the second slot can fill).
C5_TwoSlots ==
    \A g \in DOMAIN groups : Cardinality(DOMAIN groups[g].thumb_handles) <= 2

\* C5 witness: two unfinished jobs fill a group while a third request waits.
C5_Witness ==
    \E g \in DOMAIN groups :
        /\ Cardinality({ c \in DOMAIN groups[g].thumb_handles :
                           groups[g].thumb_handles[c].st = "run" }) = 2
        /\ groups[g].thumb_todo # << >>
        /\ pc = << "load", 1 >>


\* C6: one recv_thumbs pass removes from the in-flight map exactly the jobs
\* that have finished and applies their results; every unfinished job stays in
\* the map, untouched, and so does its image; the pass completes (the update
\* moves on to make_thumbs) whether or not any job has finished.
C6_DrainNonBlocking ==
    [][ IsRecvStep =>
          LET G == groups[CurGroup]
              G2 == groups'[CurGroup]
              H == G.thumb_handles
              H2 == G2.thumb_handles
          IN  /\ DOMAIN H2 = { c \in DOMAIN H : H[c].st = "run" }
              /\ \A c \in DOMAIN H2 : H2[c] = H[c] /\ G2.images[c] = G.images[c]
              /\ \A c \in DOMAIN H \ DOMAIN H2 : G2.images[c].metadata # G.images[c].metadata ]_vars

\* C6 witness: a pass has just completed that collected one job (its image is
\* at the front of the cache-check queue) and left another, unfinished, in the
\* in-flight map.
C6_Witness ==
    /\ pc[1] = "make"
    /\ LET G == groups[CurGroup]
       IN  /\ \E c \in DOMAIN G.thumb_handles : G.thumb_handles[c].st = "run"
           /\ G.cache_todo # << >>
           /\ G.images[Head(G.cache_todo)].metadata.tag = "Some"
           /\ G.images[Head(G.cache_todo)].size = None
           /\ Head(G.cache_todo) \notin DOMAIN G.thumb_handles

\* C7: when recv_thumbs drains a finished job, on success the image becomes
\* Some(metadata) with the metadata the job stored and its coordinate is put
\* once more on cache_todo; on failure the image becomes Errored and its
\* coordinate is put on neither queue.
C7_DrainResults ==
    [][ IsRecvStep =>
          LET G == groups[CurGroup]
              G2 == groups'[CurGroup]
          IN  /\ G2.thumb_todo = G.thumb_todo
              /\ \A c \in DOMAIN G.images :
                   IF c \in DOMAIN G.thumb_handles /\ G.thumb_handles[c].st = "ok"
                   THEN /\ G.thumb_handles[c].i \in DOMAIN db_meta
                        /\ G2.images[c].metadata = SomeMetadata(db_meta[G.thumb_handles[c].i])
                        /\ Count(G2.cache_todo, c) = Count(G.cache_todo, c) + 1
                   ELSE /\ Count(G2.cache_todo, c) = Count(G.cache_todo, c)
                        /\ (c \in DOMAIN G.thumb_handles /\ G.thumb_handles[c].st = "err")
                             => G2.images[c].metadata = Errored ]_vars

\* C7 witness: one pass has drained a success and a failure of the same group.
C7_Witness ==
    /\ pc[1] = "make"
    /\ LET G == groups[CurGroup]
       IN  /\ G.thumb_handles = EmptyMap
           /\ G.cache_todo # << >>
           /\ G.images[Head(G.cache_todo)].metadata.tag = "Some"
           /\ G.images[Head(G.cache_todo)].size = None
           /\ \E c \in DOMAIN G.images :
                 /\ G.images[c].metadata = Errored
                 /\ G.images[c].i \notin DOMAIN db_meta
                 /\ c \notin SeqToSet(G.cache_todo)

\* C8: an image whose state is Errored stays Errored in every step, and no
\* step starts a generation job for it.
C8_ErroredTerminal ==
    [][ \A i \in ImageIds :
          ImageOf(i).metadata = Errored =>
            /\ ImageOf(i)'.metadata = Errored
            /\ { x.h : x \in { y \in Handles' : y.h.i = i } }
                 \subseteq { x.h : x \in { y \in Handles : y.h.i = i } } ]_vars

\* C8 witness: load_cache is about to pop an Errored image that a recheck has
\* queued again.
C8_Witness ==
    /\ pc[1] = "load"
    /\ ~ panicked
    /\ LET G == groups[CurGroup]
       IN  /\ G.cache_todo # << >>
           /\ G.images[Head(G.cache_todo)].metadata = Errored

\* The step in which the first cache-check pass over a freshly enumerated
\* collection completes: load_cache pops the last image that was still Unknown.
PassCompletes ==
    /\ \E i \in ImageIds : ImageOf(i).metadata = Unknown
    /\ \A i \in ImageIds : ImageOf(i)'.metadata # Unknown

MissingIn(G) == { c \in DOMAIN G.images : G.images[c].metadata = Missing }

\* C9, as claimed: when the pass completes every image is Missing, Some or
\* Errored and each group's thumb_todo is as long as the group has Missing
\* images.
C9_QueueEqualsMissing ==
    [][ PassCompletes =>
          \A g \in DOMAIN groups' :
             /\ \A c \in DOMAIN groups'[g].images :
                   groups'[g].images[c].metadata.tag \in { "Missing", "Some", "Errored" }
             /\ Len(groups'[g].thumb_todo) = Cardinality(MissingIn(groups'[g])) ]_vars

\* C9, amended: when the pass completes every image is Missing, Some or
\* Errored and each Missing image is either still on its group's thumb_todo or
\* already handed to a job by make_thumbs: the queue and the in-flight map
\* together are as large as the group has Missing images.
C9_QueuedOrInFlight ==
    [][ PassCompletes =>
          \A g \in DOMAIN groups' :
             /\ \A c \in DOMAIN groups'[g].images :
                   groups'[g].images[c].metadata.tag \in { "Missing", "Some", "Errored" }
             /\ Len(groups'[g].thumb_todo) + Cardinality(DOMAIN groups'[g].thumb_handles)
                  = Cardinality(MissingIn(groups'[g])) ]_vars

\* C9 witness: the pass is complete, two images of one group are Missing, and
\* one of them has left the queue for a job.
C9_Witness ==
    /\ \A i \in ImageIds : ImageOf(i).metadata # Unknown
    /\ \E g \in DOMAIN groups :
          /\ Cardinality(MissingIn(groups[g])) = 2
          /\ Len(groups[g].thumb_todo) = 1
          /\ Cardinality(DOMAIN groups[g].thumb_handles) = 1


\* C10: for every size in 0..255, index < 2^40 and chunk in 0..65535,
\* TileRef::new(size, index, chunk).deconstruct() is (size, index, chunk).
C10_RoundTrip ==
    (fn_out.stage = "triple" /\ IndexBelow2p40(fn_in.index)) =>
        fn_out.triple = << fn_in.size, fn_in.index, fn_in.chunk >>

\* C10 witness: the round trip of the largest size, index and chunk.
C10_Witness ==
    /\ fn_out.stage = "triple"
    /\ fn_in.size = 255
    /\ fn_in.index = << 0, 0, 0, 255, 255, 255, 255, 255 >>
    /\ fn_in.chunk = 65535
    /\ fn_out.ref = << 255, 255, 255, 255, 255, 255, 255, 255 >>


\* The low five bytes of a u64 index (index mod 2^40), most significant first.
IndexMod2p40(index) == << index[4], index[5], index[6], index[7], index[8] >>

\* Lexicographic order of two byte strings of equal length.
BytesLess(x, y) ==
    \E k \in 1 .. Len(x) : x[k] < y[k] /\ \A j \in 1 .. (k - 1) : x[j] = y[j]

\* Lexicographic order of (size, index mod 2^40, chunk).
TripleLess(x, y) ==
    \/ x.size < y.size
    \/ /\ x.size = y.size
       /\ \/ BytesLess(IndexMod2p40(x.index), IndexMod2p40(y.index))
          \/ /\ IndexMod2p40(x.index) = IndexMod2p40(y.index)
             /\ x.chunk < y.chunk

\* C11: the numeric order of two addresses is the lexicographic order of their
\* (size, index mod 2^40, chunk); in particular the address of a smaller size
\* is the smaller one whatever the indices and chunks.
C11_OrderIsLexicographic ==
    fn_out.stage = "cmp" =>
        /\ fn_out.less <=> TripleLess(fn_in.a, fn_in.b)
        /\ fn_in.a.size < fn_in.b.size => fn_out.less

\* C11 witness: the smaller size wins against the largest index and chunk, the
\* index being one that wraps.
C11_Witness ==
    /\ fn_out.stage = "cmp"
    /\ fn_in.a.size = 7 /\ fn_in.b.size = 255
    /\ fn_in.a.index = << 255, 255, 255, 255, 255, 255, 255, 255 >> /\ fn_in.a.chunk = 65535
    /\ fn_in.b.index = << 0, 0, 0, 0, 0, 0, 0, 0 >> /\ fn_in.b.chunk = 0
    /\ fn_out.less

\* C12: TileRef::new(size, index, chunk) is chunk + 2^16 * (index mod 2^40)
\* + 2^56 * size: the size is the top byte, the low 40 bits of the index are
\* the next five bytes, the chunk is the low two bytes, for every 64-bit index.
C12_BitLayout ==
    fn_out.stage \in { "ref", "triple" } =>
        fn_out.ref = << fn_in.size >> \o IndexMod2p40(fn_in.index)
                       \o << fn_in.chunk \div 256, fn_in.chunk % 256 >>

\* C12 witness: an index of 2^40 and above, whose high bytes do not reach the
\* size byte.
C12_Witness ==
    /\ fn_out.stage = "ref"
    /\ fn_in.index = << 255, 255, 255, 255, 255, 255, 255, 255 >>
    /\ fn_in.size = 7
    /\ fn_in.chunk = 256
    /\ fn_out.ref = << 7, 255, 255, 255, 255, 255, 1, 0 >>


\* The bit-length of x: the k with 2^(k-1) <= x < 2^k (0 for x = 0).
BitLength(x) ==
    CHOOSE k \in 0 .. 20 : x < Pow(2, k) /\ (k = 0 \/ Pow(2, k - 1) <= x)

\* x rounded up to a power of two.
RoundedUp(x) ==
    CHOOSE q \in { Pow(2, k) : k \in 0 .. 20 } :
        q >= x /\ \A r \in { Pow(2, k) : k \in 0 .. 20 } : r >= x => q <= r

\* The distance of level i (from 0) of thumbs to the target size.
LevelDistance(thumbs, i, target_size) ==
    LET d == thumbs[i + 1].img_size
        larger == IF d[1] >= d[2] THEN d[1] ELSE d[2]
    IN  Abs(BitLength(target_size) - BitLength(RoundedUp(larger)))

\* C13: nearest(target_size) is the smallest index whose level minimises the
\* absolute difference between the bit-length of target_size and the
\* bit-length of the level's larger dimension rounded up to a power of two.
C13_NearestIsFirstMinimum ==
    fn_out.stage = "nearest" =>
        LET n == Len(fn_in.thumbs)
            dist(i) == LevelDistance(fn_in.thumbs, i, fn_in.target_size)
        IN  /\ fn_out.i \in 0 .. (n - 1)
            /\ \A j \in 0 .. (n - 1) : dist(fn_out.i) <= dist(j)
            /\ \A j \in 0 .. (fn_out.i - 1) : dist(j) > dist(fn_out.i)

\* C13 witness: levels of larger dimensions 64, 256 and 1024 with target 300
\* give the index of the 256 level.
C13_Witness ==
    /\ fn_out.stage = "nearest"
    /\ fn_in.target_size = 300
    /\ [ k \in 1 .. Len(fn_in.thumbs) |-> fn_in.thumbs[k].img_size ]
         = << << 64, 48 >>, << 100, 256 >>, << 1024, 768 >> >>
    /\ fn_out.i = 1


\* The step is a load_cache of CurGroup in which db.get_metadata fails.
IsFailedLookupStep ==
    /\ IsLoadStep
    /\ \E ts \in TargetSizes, vi \in ViewInputs, f \in BOOLEAN :
          LoadCacheWith(CurGroup, ts, vi[1], vi[2], TRUE, f)

\* C14: when db.get_metadata fails for the Unknown image load_cache pops, the
\* image becomes Errored and load_cache returns (the update goes on); no other
\* image, no loaded level, no resident tile, no thumb_todo entry, no handle and
\* nothing in the store changes, and the rest of cache_todo stays queued.
C14_LookupFailureIsolated ==
    [][ IsFailedLookupStep =>
          LET G == groups[CurGroup]
              G2 == groups'[CurGroup]
              c == Head(G.cache_todo)
          IN  /\ ~ panicked'
              /\ G.images[c].metadata = Unknown
              /\ G2.images[c] = [ G.images[c] EXCEPT !.metadata = Errored ]
              /\ \A d \in DOMAIN G.images \ { c } : G2.images[d] = G.images[d]
              /\ G2.tiles = G.tiles
              /\ G2.thumb_todo = G.thumb_todo
              /\ G2.thumb_handles = G.thumb_handles
              /\ G2.cache_todo = Tail(G.cache_todo)
              /\ \A g \in DOMAIN groups \ { CurGroup } : groups'[g] = groups[g]
              /\ db_tiles' = db_tiles /\ db_meta' = db_meta ]_vars

\* C14 witness: one image of a group is Errored before any job was started,
\* and the other image of the group is still queued for its lookup.
C14_Witness ==
    \E g \in DOMAIN groups : \E c \in DOMAIN groups[g].images :
        /\ groups[g].images[c].metadata = Errored
        /\ groups[g].thumb_handles = EmptyMap /\ groups[g].thumb_todo = << >>
        /\ orphans = {}
        /\ groups[g].cache_todo # << >>
        /\ groups[g].images[Head(groups[g].cache_todo)].metadata = Unknown
        /\ ~ panicked


\* The step is a load_cache of CurGroup in which the fetch of a needed tile
\* fails (db.get fails or yields no tile, or the payload does not decode).
IsFailedFetchStep ==
    /\ pc[1] = "load"
    /\ \E ts \in TargetSizes, vi \in ViewInputs, e \in BOOLEAN :
          /\ NeedsFetch(groups[CurGroup], ts, ShiftOf(vi[1], vi[2]), e, FALSE)
          /\ LoadCacheWith(CurGroup, ts, vi[1], vi[2], e, FALSE)

\* C15: when the fetch of a needed tile fails during a level change the
\* process aborts: the image is not marked Errored and keeps its level, the
\* update does not move on, and no step follows the abort (no retry).
C15_FetchFailureAborts ==
    [][ /\ ~ panicked
        /\ IsFailedFetchStep =>
              LET c == Head(groups[CurGroup].cache_todo)
              IN  /\ panicked'
                  /\ pc' = pc
                  /\ groups'[CurGroup].images[c].metadata.tag = "Some"
                  /\ groups'[CurGroup].images[c].size = groups[CurGroup].images[c].size ]_vars

\* C15 witness: the process has aborted in load_cache on a Loaded image that
\* already had a level.
C15_Witness ==
    /\ panicked
    /\ pc[1] = "load"
    /\ \E c \in DOMAIN groups[CurGroup].images :
          /\ groups[CurGroup].images[c].metadata.tag = "Some"
          /\ groups[CurGroup].images[c].size # None
          /\ c \notin SeqToSet(groups[CurGroup].cache_todo)


\* C16: Groups::reset empties every group's tiles, cache_todo and thumb_todo
\* and resets its images (no level loaded, metadata-state kept), and leaves
\* every thumb_handles map, every job and the store as they are; and whenever
\* recv_thumbs later finds such a job finished it removes the handle and
\* applies the result to the image, whatever the reset did to the image.
C16_ResetKeepsJobs ==
    [][ /\ RebuildWindow =>
             /\ DOMAIN groups' = DOMAIN groups
             /\ \A g \in DOMAIN groups :
                   /\ groups'[g].tiles = {}
                   /\ groups'[g].cache_todo = << >>
                   /\ groups'[g].thumb_todo = << >>
                   /\ groups'[g].thumb_handles = groups[g].thumb_handles
                   /\ DOMAIN groups'[g].images = DOMAIN groups[g].images
                   /\ \A c \in DOMAIN groups[g].images :
                         /\ groups'[g].images[c].metadata = groups[g].images[c].metadata
                         /\ groups'[g].images[c].i = groups[g].images[c].i
                         /\ groups'[g].images[c].size = None
             /\ orphans' = orphans
             /\ db_tiles' = db_tiles /\ db_meta' = db_meta
        /\ IsRecvStep =>
             \A c \in DOMAIN groups[CurGroup].thumb_handles :
                LET h == groups[CurGroup].thumb_handles[c]
                IN  h.st # "run" =>
                      /\ c \notin DOMAIN groups'[CurGroup].thumb_handles
                      /\ groups'[CurGroup].images[c].metadata.tag
                           = (IF h.st = "ok" THEN "Some" ELSE "Errored") ]_vars

\* C16 witness: recv_thumbs has just drained the job of one image (its fresh
\* metadata is applied and it is at the front of cache_todo) in a group that
\* was reset while the job was in the in-flight map: the other image, Loaded
\* from a record of an earlier run, has lost its level and awaits its recheck.
C16_Witness ==
    /\ pc[1] = "make"
    /\ LET G == groups[CurGroup]
       IN  /\ G.cache_todo # << >>
           /\ G.tiles = {}
           /\ \E b \in DOMAIN G.images :
                 /\ b = Head(G.cache_todo)
                 /\ b \notin DOMAIN G.thumb_handles
                 /\ G.images[b].metadata = SomeMetadata(MetadataOf(base_id + G.images[b].i))
                 /\ G.images[b].size = None
           /\ \E a \in DOMAIN G.images :
                 /\ a \in SeqToSet(G.cache_todo)
                 /\ G.images[a].metadata = SomeMetadata(MetadataOf(G.images[a].i))
                 /\ G.images[a].size = None


\* The step is the Groups::regroup of an update whose view grid differs.
IsRegroupStep == pc[1] = "idle" /\ pc'[1] = "focus" /\ view_grid # grid_size

\* C17: regroup(new_grid_size) keeps the set of image records (each image
\* once, with its metadata-state), puts image i at cell (i mod grid_w,
\* i div grid_w) of the new grid in the group keyed by that cell divided
\* component-wise by the new group size, leaves the store unchanged, and
\* leaves no resident tile and no queue entry in any group.
C17_RegroupRebuckets ==
    [][ IsRegroupStep =>
          /\ grid_size' = view_grid
          /\ AllImages' = AllImages
          /\ \A i \in ImageIds :
                /\ Cardinality({ g \in DOMAIN groups' :
                                   \E c \in DOMAIN groups'[g].images :
                                      groups'[g].images[c].i = i }) = 1
                /\ \A g \in DOMAIN groups' :
                      Cardinality({ c \in DOMAIN groups'[g].images :
                                      groups'[g].images[c].i = i }) <= 1
          /\ \A g \in DOMAIN groups' :
                /\ \A c \in DOMAIN groups'[g].images :
                      LET i == groups'[g].images[c].i
                          cell == << i % grid_size'[1], i \div grid_size'[1] >>
                      IN  /\ c = cell
                          /\ g = << cell[1] \div group_size'[1], cell[2] \div group_size'[2] >>
                /\ groups'[g].tiles = {}
                /\ groups'[g].cache_todo = << >>
                /\ groups'[g].thumb_todo = << >>
          /\ db_tiles' = db_tiles /\ db_meta' = db_meta ]_vars

\* C17 witness: a regroup has just split the images over two groups; one of
\* them had a level loaded under the old grouping, whose tiles are gone.
C17_Witness ==
    /\ pc = << "focus", 0 >>
    /\ Cardinality(DOMAIN groups) = 2
    /\ \E g \in DOMAIN groups : \E c \in DOMAIN groups[g].images :
          /\ groups[g].images[c].size # None
          /\ groups[g].tiles = {}


\* C18: in every state, each resident tile of a group that belongs to a level
\* of one of the group's images belongs to the level that image has loaded.
C18_TilesOfCurrentLevelOnly ==
    \A g \in DOMAIN groups : \A c \in DOMAIN groups[g].images :
        LET image == groups[g].images[c]
        IN  image.metadata.tag = "Some" =>
              \A t \in groups[g].tiles \cap AllTileRefs(image.metadata.thumbs) :
                 /\ image.size # None
                 /\ t \in LevelTiles(image.metadata.thumbs, image.size[1])

\* C18 witness: an image has stepped up and back down to level 0; the tiles of
\* level 0 are resident and those of the level it left are not.
C18_Witness ==
    \E g \in DOMAIN groups : \E c \in DOMAIN groups[g].images :
        LET image == groups[g].images[c]
        IN  /\ image.metadata.tag = "Some"
            /\ image.size = Some(0)
            /\ LevelTiles(image.metadata.thumbs, 0) \subseteq groups[g].tiles
            /\ LevelTiles(image.metadata.thumbs, 1) \cap groups[g].tiles = {}


\* The images that have a job, in an in-flight map or running without handle.
ImagesWithJob == { x.h.i : x \in Handles } \cup { o.i : o \in orphans }

\* C19: the sequence ids handed to the jobs of distinct images are distinct
\* and lie in the block [base_id, base_id + n) reserved at startup for the n
\* enumerated images, which never changes during the run.
C19_SequenceIdsUnique ==
    /\ [](/\ \A i \in ImagesWithJob :
               /\ i \in ImageIds
               /\ base_id <= tile_id_index(i) /\ tile_id_index(i) < base_id + num_images
          /\ \A i, j \in ImagesWithJob : i # j => tile_id_index(i) # tile_id_index(j)
          /\ \A x \in Handles : groups[x.g].images[x.c].i = x.h.i)
    /\ [][base_id' = base_id /\ num_images' = num_images]_vars

\* C19 witness: the jobs of two distinct images run at the same time.
C19_Witness ==
    \E x, y \in Handles : x.h.i # y.h.i /\ x.h.st = "run" /\ y.h.st = "run"


\* C20: a load_cache call that returns removes at most one entry of
\* cache_todo, the front one; when the level of that image changed in the call
\* the image is appended at the back, and otherwise (converged, Missing or
\* Errored) it is not queued again.
C20_QueueFifo ==
    [][ IsLoadStep =>
          LET G == groups[CurGroup]
              G2 == groups'[CurGroup]
          IN  IF G.cache_todo = << >> THEN G2.cache_todo = << >>
              ELSE LET c == Head(G.cache_todo)
                   IN  IF G2.images[c].size # G.images[c].size
                       THEN G2.cache_todo = Append(Tail(G.cache_todo), c)
                       ELSE /\ G2.cache_todo = Tail(G.cache_todo)
                            /\ \/ G2.images[c].metadata.tag \in { "Missing", "Errored" }
                               \/ /\ G2.images[c].metadata.tag = "Some"
                                  /\ \E ts \in TargetSizes, vi \in ViewInputs :
                                        nearest(G2.images[c].metadata.thumbs,
                                                Shr(ts, ShiftOf(vi[1], vi[2])))
                                          = unwrap_or(G.images[c].size, 0) ]_vars

\* C20 witness: an image whose level changed waits at the back of the queue,
\* behind an image that follows it in key order.
C20_Witness ==
    \E g \in DOMAIN groups :
        /\ Len(groups[g].cache_todo) = 2
        /\ CoordLess(groups[g].cache_todo[2], groups[g].cache_todo[1])
        /\ groups[g].images[groups[g].cache_todo[2]].size # None

(***************************************************************************)
(* The same program under a view zoomed in so far that some images lie     *)
(* more than 32 window widths from the window's centre: for them           *)
(* floor(visible_ratio - 1) is 32 or more.                                 *)
(***************************************************************************)
FarViewInputs == ViewInputs \cup ({ FALSE } \X { 32, 33 })

LoadCacheFar == LoadCacheIn(TargetSizes, FarViewInputs)

NextFar ==
    \/ \E w \in GridWidths : Resize(w)
    \/ Refocus
    \/ RebuildWindow
    \/ UpdateRegroup
    \/ UpdateFocus
    \/ RecvThumbs
    \/ MakeThumbs
    \/ LoadCacheFar
    \/ \E g \in DOMAIN groups : \E c \in DOMAIN groups[g].thumb_handles : JobFail(g, c)
    \/ \E g \in DOMAIN groups : \E c \in DOMAIN groups[g].thumb_handles : JobRun(g, c)
    \/ \E o \in orphans : OrphanCancel(o)
    \/ \E o \in orphans : OrphanRun(o)

SpecFar == Init /\ [][NextFar]_vars

\* floor(x / 2^s) of a target size x, for every s.
FloorShift(x, s) == IF s >= 31 THEN 0 ELSE x \div Pow(2, s)

\* In a load_cache step of CurGroup under the inputs of view_inputs that pops an
\* image whose metadata is (or is looked up as) Some and whose tile fetches
\* succeed, the call returns, and the image either is at the level nearest to
\* floor(target_size / 2^shift) and stays there, or takes one step toward it.
ShiftedTargetIn(view_inputs) ==
    \A ts \in TargetSizes, vi \in view_inputs :
       ( /\ pc[1] = "load"
         /\ groups[CurGroup].cache_todo # << >>
         /\ LoadCacheWith(CurGroup, ts, vi[1], vi[2], FALSE, TRUE)
         /\ LET c == Head(groups[CurGroup].cache_todo)
            IN  \/ groups[CurGroup].images[c].metadata.tag = "Some"
                \/ /\ groups[CurGroup].images[c].metadata = Unknown
                   /\ groups[CurGroup].images[c].i \in DOMAIN db_meta )
       => LET c == Head(groups[CurGroup].cache_todo)
              before == groups[CurGroup].images[c]
              after == groups'[CurGroup].images[c]
              target == nearest(after.metadata.thumbs,
                                FloorShift(ts, ShiftOf(vi[1], vi[2])))
              current_size == unwrap_or(before.size, 0)
          IN  /\ ~ panicked'
              /\ after.metadata.tag = "Some"
              /\ IF target = current_size THEN after.size = before.size
                 ELSE after.size = Some(ProgressiveStep(target, current_size))

\* C21: for a Loaded image the level load_cache aims at is the one nearest to
\* floor(target_size / 2^shift), with shift 0 for a visible image and
\* max(0, floor(visible_ratio - 1)) otherwise, for every such shift, 32 and
\* more included, and the step does not fail.
C21_ShiftedTarget == [][ShiftedTargetIn(FarViewInputs)]_vars


(***************************************************************************)
(* The size-class conversion applied to chosen arguments: Pow2::from, then *)
(* .u32() on its result.                                                   *)
(***************************************************************************)
\* u32 arguments: every byte zero, a single bit, or several bits.
U32ByteInputs == { 0, 1, 2, 4, 8, 16, 32, 64, 128, 3, 255 }

InitPow2 ==
    /\ InitProgram(NumImages, { {} })
    /\ fn_in \in [ i : [ 1 .. 4 -> U32ByteInputs ] ]
    /\ fn_out = [ stage |-> "none" ]

\* Pow2::from(i).
CallPow2From ==
    /\ fn_out.stage = "none"
    /\ fn_out' = [ stage |-> "pow2", pow2 |-> Pow2_from(fn_in.i) ]
    /\ UNCHANGED << program, fn_in >>

\* .u32() on the size class just built.
CallPow2U32 ==
    /\ fn_out.stage = "pow2" /\ fn_out.pow2 # None
    /\ fn_out' = [ stage |-> "u32", pow2 |-> fn_out.pow2, u32 |-> Pow2_u32(fn_out.pow2[1]) ]
    /\ UNCHANGED << program, fn_in >>

NextPow2 == CallPow2From \/ CallPow2U32

SpecPow2 == InitPow2 /\ [][NextPow2]_vars

\* The u32 value w is 2^e: in base 256 its digit of weight 256^(e div 8) is
\* 2^(e mod 8) and its other digits are 0.
IsTwoToThe(w, e) ==
    \A k \in 1 .. 4 : w[k] = IF 4 - k = e \div 8
                              THEN (IF e % 8 = 0 THEN 1 ELSE 2 * Pow(2, (e % 8) - 1))
                              ELSE 0

\* C22: for every u32 value i that is a power of two, Pow2::from(i) is the
\* exponent e with 2^e = i and Pow2(e).u32() is i again; for every other i
\* the assertion of Pow2::from fails.
C22_Pow2RoundTrip ==
    /\ fn_out.stage \in { "pow2", "u32" } =>
          IF \E e \in 0 .. 31 : IsTwoToThe(fn_in.i, e)
          THEN /\ fn_out.pow2 # None
               /\ fn_out.pow2[1] \in 0 .. 31
               /\ IsTwoToThe(fn_in.i, fn_out.pow2[1])
          ELSE fn_out.pow2 = None
    /\ fn_out.stage = "u32" => fn_out.u32 = fn_in.i

\* C22 witness: 128 converted to size class 7 and back.
C22_Witness ==
    /\ fn_out.stage = "u32"
    /\ fn_in.i = << 0, 0, 0, 128 >>
    /\ fn_out.pow2 = Some(7)
    /\ fn_out.u32 = << 0, 0, 0, 128 >>

\* C24: in every reachable state, an image that records a currently-loaded
\* level k has every tile of level k resident in the tile map of the group
\* that owns it.
C24_LoadedLevelResident ==
    \A g \in DOMAIN groups : \A c \in DOMAIN groups[g].images :
       LET image == groups[g].images[c]
       IN  image.size # None =>
             /\ image.metadata.tag = "Some"
             /\ LevelTiles(image.metadata.thumbs, image.size[1]) \subseteq groups[g].tiles

\* C23: when load_cache takes a Loaded image from the cache-check queue and
\* does not queue it again, the image's currently-loaded level is the level
\* nearest to the effective target size and every tile of that level is
\* resident in its group's tile map, for every target level (0 included) and
\* every starting point (no level loaded yet included).
C23_ConvergedIsResident ==
    [][ \A ts \in TargetSizes, vi \in ViewInputs :
          ( /\ pc[1] = "load"
            /\ groups[CurGroup].cache_todo # << >>
            /\ LoadCacheWith(CurGroup, ts, vi[1], vi[2], FALSE, TRUE)
            /\ ~ panicked'
            /\ groups'[CurGroup].images[Head(groups[CurGroup].cache_todo)].metadata.tag = "Some"
            /\ groups'[CurGroup].cache_todo = Tail(groups[CurGroup].cache_todo) )
          => LET image == groups'[CurGroup].images[Head(groups[CurGroup].cache_todo)]
                 target == nearest(image.metadata.thumbs, Shr(ts, ShiftOf(vi[1], vi[2])))
             IN  /\ image.size = Some(target)
                 /\ LevelTiles(image.metadata.thumbs, target) \subseteq groups'[CurGroup].tiles
      ]_vars

(***************************************************************************)
(* The viewer started on files none of which is cached, under a view that  *)
(* stays zoomed out, with its scheduling: the event loop keeps delivering  *)
(* update events, so a step of App::update that can be taken is taken, and *)
(* the thread pool runs every job it was handed to its end.                *)
(***************************************************************************)
InitUncached == InitFiles(NumImages, { {} })

\* The next step of App::update.
UpdateStep ==
    UpdateRegroup \/ UpdateFocus \/ RecvThumbs \/ MakeThumbs \/ LoadCacheZoomedOut

NextLive ==
    \/ \E w \in GridWidths : Resize(w)
    \/ Refocus
    \/ RebuildWindow
    \/ UpdateRegroup
    \/ UpdateFocus
    \/ RecvThumbs
    \/ MakeThumbs
    \/ LoadCacheZoomedOut
    \/ \E g \in DOMAIN groups : \E c \in DOMAIN groups[g].thumb_handles : JobFail(g, c)
    \/ \E g \in DOMAIN groups : \E c \in DOMAIN groups[g].thumb_handles : JobRun(g, c)
    \/ \E o \in orphans : OrphanCancel(o)
    \/ \E o \in orphans : OrphanRun(o)

\* The job of image i that a handle stands for comes to its end, Ok or Err.
JobEnds(i) ==
    \E g \in DOMAIN groups : \E c \in DOMAIN groups[g].thumb_handles :
       /\ groups[g].thumb_handles[c].i = i
       /\ (JobRun(g, c) \/ JobFail(g, c))

SpecLive ==
    /\ InitUncached /\ [][NextLive]_vars
    /\ WF_vars(UpdateStep)
    /\ \A i \in 0 .. (NumImages - 1) : WF_vars(JobEnds(i))

\* The step is the recheck of every group (App::recalc_visible).
IsRecheckStep == pc[1] = "focus" /\ pc'[1] = "recv" /\ focus_none

\* The step performs a regroup, a recheck or a reset.
IsLifecycleStep ==
    \/ IsRegroupStep
    \/ IsRecheckStep
    \/ RebuildWindow

\* C25: when every started job comes to its end, update passes recur forever
\* and recheck, reset and regroup occur only finitely often, every image that
\* is Missing eventually becomes Loaded or Errored (so none stays Missing,
\* with or without a queue entry or an in-flight job).
C25_GenerationLive ==
    <>[][~ IsLifecycleStep]_vars =>
       \A i \in 0 .. (NumImages - 1) :
          (ImageOf(i).metadata = Missing) ~> (ImageOf(i).metadata.tag \in { "Some", "Errored" })

\* C25 witness: one image became Loaded from the result of its job and the
\* other Errored from its job's failure, after a regroup into a 2-wide grid.
C25_Witness ==
    /\ grid_size = << 2, 1 >>
    /\ ImageOf(0).metadata = SomeMetadata(MetadataOf(base_id))
    /\ ImageOf(1).metadata = Errored
    /\ orphans # {}

\* C26: in every reachable state, every coordinate on a group's cache-check
\* queue or thumbnail-request queue or in its in-flight job map is the
\* coordinate of an image that group owns (so the image lookups of load_cache,
\* make_thumb and recv_thumbs find their image), also after regroup and reset.
C26_QueuesNameOwnImages ==
    \A g \in DOMAIN groups :
       /\ SeqToSet(groups[g].cache_todo) \subseteq DOMAIN groups[g].images
       /\ SeqToSet(groups[g].thumb_todo) \subseteq DOMAIN groups[g].images
       /\ DOMAIN groups[g].thumb_handles \subseteq DOMAIN groups[g].images

\* C26 witness: after a regroup into the 2-wide grid, a group holds a job of
\* its image and, after a later reset or recheck, a second request for it,
\* while the other group has its image on the cache-check queue.
C26_Witness ==
    /\ grid_size = << 2, 1 >>
    /\ \E g \in DOMAIN groups :
          /\ groups[g].thumb_handles # EmptyMap
          /\ groups[g].thumb_todo # << >>
          /\ Head(groups[g].thumb_todo) \in DOMAIN groups[g].thumb_handles
    /\ \E g \in DOMAIN groups : groups[g].cache_todo # << >>

\* C27: a group never holds more than 2 in-flight jobs; a make_thumbs pass
\* starts jobs only while the in-flight map holds at most 1 handle, keeps the
\* handles it found, and pops the thumbnail-request queue from the front only
\* until the map holds 2: with 2 handles from the start it pops nothing, a pass
\* that ends below 2 has emptied the queue, and a pass that fills the map
\* stops at the request that filled it, leaving the rest queued in order.
C27_AdmissionStopsAtTwo ==
    /\ [] (\A g \in DOMAIN groups : Cardinality(DOMAIN groups[g].thumb_handles) \in 0 .. 2)
    /\ [][ IsMakeStep =>
             LET G == groups[CurGroup]
                 G2 == groups'[CurGroup]
                 H == DOMAIN G.thumb_handles
                 H2 == DOMAIN G2.thumb_handles
                 popped == Len(G.thumb_todo) - Len(G2.thumb_todo)
             IN  /\ H \subseteq H2
                 /\ popped \in 0 .. Len(G.thumb_todo)
                 /\ G2.thumb_todo = SubSeq(G.thumb_todo, popped + 1, Len(G.thumb_todo))
                 /\ Cardinality(H) = 2 => (popped = 0 /\ H2 = H)
                 /\ Cardinality(H2) < 2 => G2.thumb_todo = << >>
                 /\ (Cardinality(H) < 2 /\ Cardinality(H2) = 2) =>
                       G.thumb_todo[popped] \in H2 \ H ]_vars

\* C27 witness: a make_thumbs pass has just filled the second slot of a group
\* of three Missing images and left the third request queued.
C27_Witness ==
    /\ pc = << "load", 1 >>
    /\ \E g \in DOMAIN groups :
          /\ Cardinality(MissingIn(groups[g])) = 3
          /\ Cardinality(DOMAIN groups[g].thumb_handles) = 2
          /\ Len(groups[g].thumb_todo) = 1
          /\ ~ HasHandle(groups[g], Head(groups[g].thumb_todo))

\* C28: whenever an image's currently-loaded level index is set, it is a valid
\* index into the image's metadata level list, and the level access of
\* load_cache is always in range: no step goes below 0 or past the last
\* level, so a load_cache step aborts only at a tile fetch.
C28_LevelIndexInRange ==
    /\ [] (\A g \in DOMAIN groups : \A c \in DOMAIN groups[g].images :
             LET image == groups[g].images[c]
             IN  image.size # None =>
                   /\ image.metadata.tag = "Some"
                   /\ image.size[1] \in 0 .. (Len(image.metadata.thumbs) - 1))
    /\ [][ (pc[1] = "load" /\ panicked') =>
             \E ts \in TargetSizes, vi \in ViewInputs, e \in BOOLEAN :
                NeedsFetch(groups[CurGroup], ts, ShiftOf(vi[1], vi[2]), e, FALSE) ]_vars

\* C28 witness: one image has stepped up to the last level and come to rest
\* there, the other has stepped back down to level 0.
C28_Witness ==
    /\ ~ panicked
    /\ \E g \in DOMAIN groups : \E c \in DOMAIN groups[g].images :
          /\ groups[g].images[c].size = Some(NumLevels - 1)
          /\ LevelTiles(groups[g].images[c].metadata.thumbs, NumLevels - 1) \subseteq groups[g].tiles
          /\ Count(groups[g].cache_todo, c) = 0
    /\ \E g \in DOMAIN groups : \E c \in DOMAIN groups[g].images :
          /\ groups[g].images[c].size = Some(0)
          /\ LevelTiles(groups[g].images[c].metadata.thumbs, 0) \subseteq groups[g].tiles

\* C29: recheck leaves each group's thumbnail-request queue empty and its
\* cache-check queue holding the coordinate of every image of the group
\* exactly once, in coordinate key order; the resident tiles, every image's
\* metadata-state and loaded level, and the in-flight job map are unchanged.
C29_RecheckFrame ==
    [][ IsRecheckStep =>
          /\ DOMAIN groups' = DOMAIN groups
          /\ \A g \in DOMAIN groups :
                LET G == groups[g]
                    G2 == groups'[g]
                IN  /\ G2.thumb_todo = << >>
                    /\ Len(G2.cache_todo) = Cardinality(DOMAIN G.images)
                    /\ SeqToSet(G2.cache_todo) = DOMAIN G.images
                    /\ \A k \in 1 .. (Len(G2.cache_todo) - 1) :
                          CoordLess(G2.cache_todo[k], G2.cache_todo[k + 1])
                    /\ G2.tiles = G.tiles
                    /\ G2.images = G.images
                    /\ G2.thumb_handles = G.thumb_handles ]_vars

\* C29 witness: after a recheck a group of two images has both on the
\* cache-check queue in key order, the first with a level loaded and its tiles
\* resident, the second Missing with its job in flight.
C29_Witness ==
    /\ pc = << "recv", 1 >>
    /\ \E g \in DOMAIN groups :
          /\ groups[g].cache_todo = << << 0, 0 >>, << 1, 0 >> >>
          /\ groups[g].thumb_todo = << >>
          /\ groups[g].images[<< 0, 0 >>].size # None
          /\ groups[g].tiles # {}
          /\ groups[g].images[<< 1, 0 >>].metadata = Missing
          /\ HasHandle(groups[g], << 1, 0 >>)

====
